---- MODULE Spec2Model ----
(***************************************************************************)
(* Model of WeatherService (src/src/weather/weather.service.ts): the two   *)
(* cache-aside read paths getWeatherByCity and getFiveDayForecast, the     *)
(* geocoding and upstream fetch helpers, the formatters and the forecast   *)
(* grouping.  Numbers that are fractional in the provider payload are      *)
(* carried in thousandths (21456 stands for 21.456).                       *)
(***************************************************************************)
EXTENDS Integers, Sequences, FiniteSets, TLC

(***************************************************************************)
(* Bounds of the model                                                     *)
(***************************************************************************)
NCalls == 2
TickStep == 150
MaxTime == 300
MaxList == 3

(***************************************************************************)
(* Program constants                                                       *)
(***************************************************************************)
\* a time-to-live given in another unit
cacheTTLMillis == 300 * 1000

cacheTTL == 300
NOT_FOUND == 404
INTERNAL_SERVER_ERROR == 500
KstShift == 9

Undefined == "undefined"
EmptyObject == [k \in {} |-> Undefined]

Ops == {"weather", "forecast"}
Cities == {"Seoul", "Busan"}
Calls == 1 .. NCalls
FirstCity == "Seoul"

(***************************************************************************)
(* Number and date rendering                                               *)
(***************************************************************************)
Pad2(n) == IF n < 10 THEN "0" \o ToString(n) ELSE ToString(n)

\* Number.prototype.toFixed(2) of the value m/1000
toFixed2(m) ==
  LET a == IF m < 0 THEN -m ELSE m
      h == (a + 5) \div 10
  IN  (IF m < 0 THEN "-" ELSE "") \o ToString(h \div 100) \o "." \o Pad2(h % 100)

\* String(x) of the non-negative value m/1000: shortest decimal form
NumberToString(m) ==
  LET i == m \div 1000
      f == m % 1000
  IN  IF f = 0 THEN ToString(i)
      ELSE IF f % 100 = 0 THEN ToString(i) \o "." \o ToString(f \div 100)
      ELSE IF f % 10 = 0 THEN ToString(i) \o "." \o Pad2(f \div 10)
      ELSE ToString(i) \o "." \o (IF f < 10 THEN "00" ELSE IF f < 100 THEN "0" ELSE "")
                       \o ToString(f)

\* civil date of a day number counted from 1970-01-01
CivilFromDays(days) ==
  LET z   == days + 719468
      era == z \div 146097
      doe == z - era * 146097
      yoe == (doe - doe \div 1460 + doe \div 36524 - doe \div 146096) \div 365
      doy == doe - (365 * yoe + yoe \div 4 - yoe \div 100)
      mp  == (5 * doy + 2) \div 153
      d   == doy - (153 * mp + 2) \div 5 + 1
      m   == IF mp < 10 THEN mp + 3 ELSE mp - 9
      y   == yoe + era * 400 + (IF m <= 2 THEN 1 ELSE 0)
  IN  [year |-> y, month |-> m, day |-> d]

\* Date.prototype.toLocaleDateString() in the image's locale (en-US)
toLocaleDateString(dt) ==
  ToString(dt.month) \o "/" \o ToString(dt.day) \o "/" \o ToString(dt.year)

\* the clock part of Date.prototype.toLocaleString() (12-hour clock)
toLocaleTimeString(dt) ==
  LET h12 == IF dt.hour % 12 = 0 THEN 12 ELSE dt.hour % 12
  IN  ToString(h12) \o ":" \o Pad2(dt.minute) \o ":" \o Pad2(dt.second)
        \o (IF dt.hour < 12 THEN " AM" ELSE " PM")

\* Date.prototype.toLocaleString()
toLocaleString(dt) == toLocaleDateString(dt) \o ", " \o toLocaleTimeString(dt)

\* new Date(timestamp * 1000); setHours(getHours() + 9); toLocaleString()
formatUnixTime(timestamp) ==
  LET t   == timestamp + KstShift * 3600
      day == CivilFromDays(t \div 86400)
      s   == t % 86400
  IN  toLocaleString([year |-> day.year, month |-> day.month, day |-> day.day,
                      hour |-> s \div 3600, minute |-> (s % 3600) \div 60,
                      second |-> s % 60])

(***************************************************************************)
(* Errors and completions                                                  *)
(***************************************************************************)
HttpException(message, status) ==
  [name |-> "HttpException", message |-> message, status |-> status]

\* rejection of firstValueFrom(httpService.get(..)) that nothing translates
AxiosError == [name |-> "AxiosError", message |-> "Request failed", status |-> 0]

\* first-element access on an empty weather-condition list
TypeError == [name |-> "TypeError", message |-> "Cannot read properties of undefined",
              status |-> 0]

NoError == [name |-> "none", message |-> "", status |-> 0]
NoValue == [undefined |-> TRUE]

Returns(v) == [ok |-> TRUE, value |-> v, error |-> NoError]
Throws(e) == [ok |-> FALSE, value |-> NoValue, error |-> e]

(***************************************************************************)
(* Formatter                                                               *)
(***************************************************************************)
\* the unit suffix of temperatures (U+2103 in the source)
Celsius == "degC"

\* const { rain = {} } = data
FieldOrEmpty(data, f) == IF f \in DOMAIN data THEN data[f] ELSE EmptyObject

\* a rate rendered without the default for a missing value
OneHourRateNoDefault(obj) ==
  (IF "1h" \in DOMAIN obj THEN NumberToString(obj["1h"]) ELSE "undefined") \o "mm/h"

\* `${rain["1h"] || 0}mm/h`
OneHourRate(obj) ==
  (IF "1h" \in DOMAIN obj /\ obj["1h"] # 0 THEN NumberToString(obj["1h"]) ELSE "0")
    \o "mm/h"

formatWeatherData(data) ==
  IF Len(data.weather) = 0 THEN Throws(TypeError)
  ELSE Returns(
    [weatherStatus       |-> data.weather[1].main,
     detailWeatherStatus |-> data.weather[1].description,
     currentTemp         |-> toFixed2(data.main.temp) \o Celsius,
     apparentTemp        |-> toFixed2(data.main.feels_like) \o Celsius,
     currentHumi         |-> ToString(data.main.humidity) \o "%",
     minTemp             |-> toFixed2(data.main.temp_min) \o Celsius,
     maxTemp             |-> toFixed2(data.main.temp_max) \o Celsius,
     windSpeed           |-> toFixed2(data.wind.speed) \o "m/s",
     rainfall            |-> OneHourRate(FieldOrEmpty(data, "rain")),
     snowfall            |-> OneHourRate(FieldOrEmpty(data, "snow")),
     sunriseTime         |-> formatUnixTime(data.sys.sunrise),
     sunsetTime          |-> formatUnixTime(data.sys.sunset),
     icon                |-> data.weather[1].icon])

formatForecastData(item) ==
  IF Len(item.weather) = 0 THEN Throws(TypeError)
  ELSE Returns(
    [forecastTime        |-> toLocaleString(item.dt_txt),
     weatherStatus       |-> item.weather[1].main,
     detailWeatherStatus |-> item.weather[1].description,
     currentTemp         |-> toFixed2(item.main.temp) \o Celsius,
     apparentTemp        |-> toFixed2(item.main.feels_like) \o Celsius,
     currentHumi         |-> ToString(item.main.humidity) \o "%",
     minTemp             |-> toFixed2(item.main.temp_min) \o Celsius,
     maxTemp             |-> toFixed2(item.main.temp_max) \o Celsius,
     windSpeed           |-> toFixed2(item.wind.speed) \o "m/s",
     rainfall            |-> OneHourRate(FieldOrEmpty(item, "rain")),
     snowfall            |-> OneHourRate(FieldOrEmpty(item, "snow")),
     icon                |-> item.weather[1].icon])

(***************************************************************************)
(* Forecast grouping.  A JavaScript object with string keys is modelled as *)
(* the sequence of its keys in insertion order plus the mapping itself.    *)
(***************************************************************************)
EmptyGroups == [keys |-> << >>, byDate |-> EmptyObject]

\* a reducer that starts the bucket again at every item
GroupStepReset(acc, curr) ==
  LET forecastDate == toLocaleDateString(curr.dt_txt)
  IN  [keys   |-> IF forecastDate \in DOMAIN acc.byDate THEN acc.keys
                  ELSE Append(acc.keys, forecastDate),
       byDate |-> [d \in DOMAIN acc.byDate \cup {forecastDate} |->
                     IF d = forecastDate THEN << formatForecastData(curr).value >>
                     ELSE acc.byDate[d]]]

\* a reducer that puts a new date in front of the dates it already has
GroupStepPrepend(acc, curr) ==
  LET forecastDate == toLocaleDateString(curr.dt_txt)
      created == IF forecastDate \in DOMAIN acc.byDate
                 THEN acc
                 ELSE [keys   |-> << forecastDate >> \o acc.keys,
                       byDate |-> [d \in DOMAIN acc.byDate \cup {forecastDate} |->
                                     IF d = forecastDate THEN << >> ELSE acc.byDate[d]]]
  IN  [created EXCEPT !.byDate[forecastDate] =
                        Append(@, formatForecastData(curr).value)]

\* the reducer of groupForecastByDate: one callback invocation
GroupStep(acc, curr) ==
  LET forecastDate == toLocaleDateString(curr.dt_txt)
      created == IF forecastDate \in DOMAIN acc.byDate
                 THEN acc
                 ELSE [keys   |-> Append(acc.keys, forecastDate),
                       byDate |-> [d \in DOMAIN acc.byDate \cup {forecastDate} |->
                                     IF d = forecastDate THEN << >> ELSE acc.byDate[d]]]
  IN  [created EXCEPT !.byDate[forecastDate] =
                        Append(@, formatForecastData(curr).value)]

RECURSIVE ReduceForecast(_, _, _)
ReduceForecast(forecastData, i, acc) ==
  IF i > Len(forecastData) THEN Returns(acc)
  ELSE IF ~formatForecastData(forecastData[i]).ok THEN Throws(TypeError)
  ELSE ReduceForecast(forecastData, i + 1, GroupStep(acc, forecastData[i]))

groupForecastByDate(forecastData) == ReduceForecast(forecastData, 1, EmptyGroups)

(***************************************************************************)
(* What the provider may answer                                            *)
(***************************************************************************)
Condition(main, description, icon) ==
  [main |-> main, description |-> description, icon |-> icon]

Main(temp, humidity) ==
  [temp |-> temp, feels_like |-> temp - 556, humidity |-> humidity,
   temp_min |-> temp - 1456, temp_max |-> temp + 1544]

PayloadClear ==
  [weather |-> << Condition("Clear", "clear sky", "01d") >>,
   main |-> Main(21456, 60), wind |-> [speed |-> 3100],
   sys |-> [sunrise |-> 1714512600, sunset |-> 1714561200]]

PayloadRain ==
  [weather |-> << Condition("Rain", "light rain", "10d"), Condition("Mist", "mist", "50d") >>,
   main |-> Main(-1004, 93), wind |-> [speed |-> 12345],
   rain |-> ("1h" :> 2500), snow |-> EmptyObject,
   sys |-> [sunrise |-> 1714512600, sunset |-> 1714561200]]

PayloadNoCondition ==
  [weather |-> << >>,
   main |-> Main(5000, 40), wind |-> [speed |-> 0],
   sys |-> [sunrise |-> 1714512600, sunset |-> 1714561200]]

CurrentPayloads == {PayloadClear, PayloadRain, PayloadNoCondition}

\* dt_txt "2024-05-DD HH:00:00", carried as the fields new Date(dt_txt) reads
DtTxt(day, hour) ==
  [year |-> 2024, month |-> 5, day |-> day, hour |-> hour, minute |-> 0, second |-> 0]

Item(day, hour, temp) ==
  [dt_txt |-> DtTxt(day, hour), weather |-> << Condition("Clouds", "few clouds", "02d") >>,
   main |-> Main(temp, 55), wind |-> [speed |-> 2000]]

ItemSnow(day, hour, temp) ==
  [dt_txt |-> DtTxt(day, hour), weather |-> << Condition("Snow", "snow", "13d") >>,
   main |-> Main(temp, 80), wind |-> [speed |-> 2000],
   rain |-> ("1h" :> 0), snow |-> ("1h" :> 250)]

ItemNoCondition(day, hour) ==
  [dt_txt |-> DtTxt(day, hour), weather |-> << >>,
   main |-> Main(0, 50), wind |-> [speed |-> 0]]

ForecastItems ==
  {Item(1, 9, 18000), Item(1, 12, 21456), Item(2, 0, 15125), ItemSnow(2, 3, -2000)}

ForecastPayloads ==
  { [list |-> << Item(1, 9, 18000), Item(1, 12, 21456), Item(2, 0, 15125) >>],
    [list |-> << >>],
    [list |-> << Item(1, 9, 18000), ItemNoCondition(1, 12) >>] }

Payloads(op) == IF op = "weather" THEN CurrentPayloads ELSE ForecastPayloads

\* the first match of the geocoding lookup
Coordinates(city) ==
  IF city = "Seoul" THEN [lat |-> 37566, lon |-> 126978]
  ELSE [lat |-> 35180, lon |-> 129075]

\* response.data of the geocoding lookup: no match, or the matches
GeocodeData(city) == { << >>, << Coordinates(city) >> }

ListsUpTo(S, n) == UNION { [1 .. k -> S] : k \in 0 .. n }

(***************************************************************************)
(* State                                                                   *)
(***************************************************************************)
VARIABLES
  cache,         \* the cache store: key -> [value, expires, at, by]
  now,           \* the clock the cache store reads
  call,          \* the calls of getWeatherByCity / getFiveDayForecast
  forecastData,  \* argument of a stand-alone groupForecastByDate evaluation
  grouped,       \* its result
  raw,           \* argument of a stand-alone formatter evaluation
  formatted      \* its result

vars == << cache, now, call, forecastData, grouped, raw, formatted >>

\* one key per city, whatever the operation
cacheKeyCityOnly(op, city) == "weather_" \o city

\* `weather_${city}` / `forecast_${city}`
cacheKey(op, city) == op \o "_" \o city

\* a store that never answers a lookup
CacheGetNothing(store, key, t) == NoValue

\* cacheManager.get(key): the value of a non-expired entry, else undefined
CacheGet(store, key, t) ==
  IF key \in DOMAIN store /\ t < store[key].expires THEN store[key].value ELSE NoValue

\* a store whose set leaves an entry that has not expired as it is
\* a set that drops every other entry of the store
CacheSetFlush(store, key, value, ttl, t, by) ==
  [k \in {key} |-> [value |-> value, expires |-> t + ttl, at |-> t, by |-> by]]

CacheSetKeepFirst(store, key, value, ttl, t, by) ==
  [k \in DOMAIN store \cup {key} |->
     IF k # key THEN store[k]
     ELSE IF key \in DOMAIN store /\ t < store[key].expires
     THEN [store[key] EXCEPT !.at = t, !.by = by]
     ELSE [value |-> value, expires |-> t + ttl, at |-> t, by |-> by]]

\* cacheManager.set(key, value, ttl); at and by record when and by which call
\* set was last invoked on the key
CacheSet(store, key, value, ttl, t, by) ==
  [k \in DOMAIN store \cup {key} |->
     IF k = key THEN [value |-> value, expires |-> t + ttl, at |-> t, by |-> by]
     ELSE store[k]]

\* a lookup that never hits
TruthyNever(v) == FALSE

\* a truthiness test under which an empty object counts as absent
TruthyNonEmpty(v) == v # NoValue /\ v # EmptyGroups

\* if (cachedWeather)
Truthy(v) == v # NoValue

\* `${this.apiUrl}/weather?lat=${lat}&lon=${lon}&...`
Url(op, coords) == [path |-> "/" \o op, lat |-> coords.lat, lon |-> coords.lon]

\* this.formatWeatherData(response.data) / this.groupForecastByDate(response.data.list)
Shape(op, data) ==
  IF op = "weather" THEN formatWeatherData(data) ELSE groupForecastByDate(data.list)

\* the message of the catch block of each operation
FailedMessage(op) ==
  IF op = "weather" THEN "Failed to fetch weather data" ELSE "Failed to fetch forecast data"

\* a catch block that rethrows what it caught
CatchRethrow(op, error) == error

\* catch (error) { throw new HttpException(.., INTERNAL_SERVER_ERROR) }
Catch(op, error) == HttpException(FailedMessage(op), INTERNAL_SERVER_ERROR)

\* the message of the geocoder's exception (Korean text in the source)
GeocodeNotFoundMessage == "dosi jeongboreul chajeul su eopseumnida."

\* a catchError that lets the transport error through
FetchCatchErrorRaw(error) == error

\* catchError of fetchWeatherData
FetchCatchError(error) == HttpException("City not found", NOT_FOUND)

Idle ==
  [pc |-> "idle", op |-> "weather", city |-> "Seoul", at |-> 0, after |-> {},
   window |-> 0, url |-> NoValue, thrown |-> NoError, result |-> NoValue,
   error |-> NoError, log |-> << >>]

Init ==
  /\ cache = EmptyObject
  /\ now = 0
  /\ call = [c \in Calls |-> Idle]
  /\ forecastData = << >>
  /\ grouped = NoValue
  /\ raw = NoValue
  /\ formatted = NoValue

Done(c) == call[c].pc = "done"

(***************************************************************************)
(* getWeatherByCity / getFiveDayForecast up to the first outbound request: *)
(* the cache lookup, and on a miss the geocoding request.  Calls are       *)
(* numbered in the order they arrive, and the city names being             *)
(* interchangeable, the first call to arrive is the one for FirstCity.     *)
(***************************************************************************)
\* a lookup that joins a computation already under way for the key instead of
\* starting its own
LookupSingleFlight(c, op, city) ==
  /\ call[c].pc = "idle"
  /\ \A d \in Calls : d < c => call[d].pc # "idle"
  /\ c = 1 => city = FirstCity
  /\ LET cached == CacheGet(cache, cacheKey(op, city), now)
         begun  == [call[c] EXCEPT !.op = op, !.city = city, !.at = now,
                                   !.after = {d \in Calls : Done(d)}]
         busy   == \E d \in Calls :
                     /\ call[d].pc \in {"geocode", "fetch"}
                     /\ call[d].op = op /\ call[d].city = city
     IN  IF Truthy(cached)
         THEN call' = [call EXCEPT ![c] =
                [begun EXCEPT !.pc = "done", !.result = cached,
                              !.window = cache[cacheKey(op, city)].expires,
                              !.log = << "get", "return" >>]]
         ELSE IF busy
         THEN call' = [call EXCEPT ![c] =
                [begun EXCEPT !.pc = "done", !.log = << "get", "return" >>]]
         ELSE call' = [call EXCEPT ![c] =
                [begun EXCEPT !.pc = "geocode", !.log = << "get", "geocodeRequest" >>]]
  /\ UNCHANGED << cache, now, forecastData, grouped, raw, formatted >>

Lookup(c, op, city) ==
  /\ call[c].pc = "idle"
  /\ \A d \in Calls : d < c => call[d].pc # "idle"
  /\ c = 1 => city = FirstCity
  /\ LET cached == CacheGet(cache, cacheKey(op, city), now)
         begun  == [call[c] EXCEPT !.op = op, !.city = city, !.at = now,
                                   !.after = {d \in Calls : Done(d)}]
     IN  IF Truthy(cached)
         THEN call' = [call EXCEPT ![c] =
                [begun EXCEPT !.pc = "done", !.result = cached,
                              !.window = cache[cacheKey(op, city)].expires,
                              !.log = << "get", "return" >>]]
         ELSE call' = [call EXCEPT ![c] =
                [begun EXCEPT !.pc = "geocode", !.log = << "get", "geocodeRequest" >>]]
  /\ UNCHANGED << cache, now, forecastData, grouped, raw, formatted >>

(***************************************************************************)
(* getCoordinatesByCity after its await, and the request that follows it   *)
(***************************************************************************)
GeocodeFailed(c) ==
  /\ call[c].pc = "geocode"
  /\ call' = [call EXCEPT ![c].pc = "done", ![c].thrown = AxiosError,
                          ![c].error = AxiosError,
                          ![c].log = @ \o << "geocodeError", "throw" >>]
  /\ UNCHANGED << cache, now, forecastData, grouped, raw, formatted >>

\* a geocoder without the check for an empty result set
GeocodeResponseUnchecked(c, data) ==
  /\ call[c].pc = "geocode"
  /\ call' = [call EXCEPT
       ![c].pc = "fetch",
       ![c].url = Url(call[c].op, IF Len(data) = 0 THEN [lat |-> 0, lon |-> 0] ELSE data[1]),
       ![c].log = @ \o << IF Len(data) = 0 THEN "geocodeEmpty" ELSE "geocodeOk",
                          "fetchRequest" >>]
  /\ UNCHANGED << cache, now, forecastData, grouped, raw, formatted >>

\* a geocoder that remembers in the cache that the city was not found
GeocodeResponseNegativeCache(c, data) ==
  /\ call[c].pc = "geocode"
  /\ IF Len(data) = 0
     THEN /\ call' = [call EXCEPT
               ![c].pc = "done",
               ![c].thrown = HttpException(GeocodeNotFoundMessage, NOT_FOUND),
               ![c].error = HttpException(GeocodeNotFoundMessage, NOT_FOUND),
               ![c].log = @ \o << "geocodeEmpty", "throw" >>]
          /\ cache' = CacheSet(cache, cacheKey(call[c].op, call[c].city),
                               [notFound |-> TRUE], cacheTTL, now, c)
     ELSE /\ call' = [call EXCEPT
               ![c].pc = "fetch",
               ![c].url = Url(call[c].op, data[1]),
               ![c].log = @ \o << "geocodeOk", "fetchRequest" >>]
          /\ cache' = cache
  /\ UNCHANGED << now, forecastData, grouped, raw, formatted >>

GeocodeResponse(c, data) ==
  /\ call[c].pc = "geocode"
  /\ IF Len(data) = 0
     THEN call' = [call EXCEPT
            ![c].pc = "done",
            ![c].thrown = HttpException(GeocodeNotFoundMessage, NOT_FOUND),
            ![c].error = HttpException(GeocodeNotFoundMessage, NOT_FOUND),
            ![c].log = @ \o << "geocodeEmpty", "throw" >>]
     ELSE call' = [call EXCEPT
            ![c].pc = "fetch",
            ![c].url = Url(call[c].op, data[1]),
            ![c].log = @ \o << "geocodeOk", "fetchRequest" >>]
  /\ UNCHANGED << cache, now, forecastData, grouped, raw, formatted >>

(***************************************************************************)
(* fetchWeatherData after its await, and the rest of the operation: the    *)
(* try block with the formatting and cacheManager.set, and the catch.  The *)
(* cache store is the in-memory one (CacheModule.register()), so set and   *)
(* the return after its await happen in the same turn of the event loop.   *)
(***************************************************************************)
\* an operation that asks again when its request has failed
FetchFailedRetry(c) ==
  /\ call[c].pc = "fetch"
  /\ call' = [call EXCEPT ![c].log = @ \o << "fetchError", "fetchRequest" >>]
  /\ UNCHANGED << cache, now, forecastData, grouped, raw, formatted >>

FetchFailed(c) ==
  /\ call[c].pc = "fetch"
  /\ call' = [call EXCEPT
       ![c].pc = "done",
       ![c].thrown = FetchCatchError(AxiosError),
       ![c].error = Catch(call[c].op, FetchCatchError(AxiosError)),
       ![c].log = @ \o << "fetchError", "throw" >>]
  /\ UNCHANGED << cache, now, forecastData, grouped, raw, formatted >>

\* an operation that returns its result without storing it
FetchResponseNoStore(c, data) ==
  /\ call[c].pc = "fetch"
  /\ LET shaped == Shape(call[c].op, data)
     IN  IF ~shaped.ok
         THEN call' = [call EXCEPT
                ![c].pc = "done",
                ![c].thrown = shaped.error,
                ![c].error = Catch(call[c].op, shaped.error),
                ![c].log = @ \o << "fetchOk", "formatError", "throw" >>]
         ELSE call' = [call EXCEPT
                ![c].pc = "done",
                ![c].result = shaped.value,
                ![c].window = now + cacheTTL,
                ![c].log = @ \o << "fetchOk", "set", "return" >>]
  /\ UNCHANGED << cache, now, forecastData, grouped, raw, formatted >>

\* an operation whose try block lets a formatting failure escape as it is
FetchResponseUncaught(c, data) ==
  /\ call[c].pc = "fetch"
  /\ LET shaped == Shape(call[c].op, data)
         key    == cacheKey(call[c].op, call[c].city)
     IN  IF ~shaped.ok
         THEN /\ call' = [call EXCEPT
                   ![c].pc = "done",
                   ![c].thrown = shaped.error,
                   ![c].error = shaped.error,
                   ![c].log = @ \o << "fetchOk", "formatError", "throw" >>]
              /\ cache' = cache
         ELSE /\ call' = [call EXCEPT
                   ![c].pc = "done",
                   ![c].result = shaped.value,
                   ![c].window = now + cacheTTL,
                   ![c].log = @ \o << "fetchOk", "set", "return" >>]
              /\ cache' = CacheSet(cache, key, shaped.value, cacheTTL, now, c)
  /\ UNCHANGED << now, forecastData, grouped, raw, formatted >>

FetchResponse(c, data) ==
  /\ call[c].pc = "fetch"
  /\ LET shaped == Shape(call[c].op, data)
         key    == cacheKey(call[c].op, call[c].city)
     IN  IF ~shaped.ok
         THEN /\ call' = [call EXCEPT
                   ![c].pc = "done",
                   ![c].thrown = shaped.error,
                   ![c].error = Catch(call[c].op, shaped.error),
                   ![c].log = @ \o << "fetchOk", "formatError", "throw" >>]
              /\ cache' = cache
         ELSE /\ call' = [call EXCEPT
                   ![c].pc = "done",
                   ![c].result = shaped.value,
                   ![c].window = now + cacheTTL,
                   ![c].log = @ \o << "fetchOk", "set", "return" >>]
              /\ cache' = CacheSet(cache, key, shaped.value, cacheTTL, now, c)
  /\ UNCHANGED << now, forecastData, grouped, raw, formatted >>

\* rejection of cacheManager.set(..)
StoreError == [name |-> "Error", message |-> "set failed", status |-> 0]

\* the fetch succeeds and the payload is formatted, but cacheManager.set
\* rejects: the await in the try block throws and the catch block takes over.
\* The store registered by the application keeps its entries in memory and
\* does not reject, so this step belongs to SpecStoreFails only, which puts
\* the service in front of a store that may; a rejected set stores nothing.
StoreFailed(c, data) ==
  /\ call[c].pc = "fetch"
  /\ Shape(call[c].op, data).ok
  /\ call' = [call EXCEPT
       ![c].pc = "done",
       ![c].thrown = StoreError,
       ![c].error = Catch(call[c].op, StoreError),
       ![c].log = @ \o << "fetchOk", "setError", "throw" >>]
  /\ UNCHANGED << cache, now, forecastData, grouped, raw, formatted >>

\* time passes
Tick ==
  /\ now + TickStep <= MaxTime
  /\ now' = now + TickStep
  /\ UNCHANGED << cache, call, forecastData, grouped, raw, formatted >>

Next ==
  \/ \E c \in Calls, op \in Ops, city \in Cities : Lookup(c, op, city)
  \/ \E c \in Calls : GeocodeFailed(c)
  \/ \E c \in Calls : \E data \in GeocodeData(call[c].city) : GeocodeResponse(c, data)
  \/ \E c \in Calls : FetchFailed(c)
  \/ \E c \in Calls : \E data \in Payloads(call[c].op) : FetchResponse(c, data)
  \/ Tick

Spec == Init /\ [][Next]_vars

\* the service in front of a cache store whose set may reject
NextStoreFails ==
  \/ Next
  \/ \E c \in Calls : \E data \in Payloads(call[c].op) : StoreFailed(c, data)

SpecStoreFails == Init /\ [][NextStoreFails]_vars

(***************************************************************************)
(* groupForecastByDate on its own, over every list of up to MaxList items  *)
(***************************************************************************)
InitGroup ==
  /\ cache = EmptyObject
  /\ now = 0
  /\ call = [c \in Calls |-> Idle]
  /\ forecastData \in ListsUpTo(ForecastItems, MaxList)
  /\ grouped = NoValue
  /\ raw = NoValue
  /\ formatted = NoValue

Group ==
  /\ grouped = NoValue
  /\ grouped' = groupForecastByDate(forecastData).value
  /\ UNCHANGED << cache, now, call, forecastData, raw, formatted >>

NextGroup == Group

SpecGroup == InitGroup /\ [][NextGroup]_vars

(***************************************************************************)
(* formatWeatherData and formatForecastData on their own, over payloads    *)
(* with every combination of rain and snow sub-objects                     *)
(***************************************************************************)
\* a rain or snow field: not given, or given as an object with or without "1h"
RateOptions ==
  {[given |-> FALSE, obj |-> EmptyObject], [given |-> TRUE, obj |-> EmptyObject]}
    \cup {[given |-> TRUE, obj |-> ("1h" :> v)] : v \in {0, 250, 2500, 12000}}

WithRates(payload, rain, snow) ==
  LET withRain == IF rain.given THEN ("rain" :> rain.obj) @@ payload ELSE payload
  IN  IF snow.given THEN ("snow" :> snow.obj) @@ withRain ELSE withRain

RawInputs ==
  {[kind |-> kind, rain |-> rain, snow |-> snow,
    payload |-> WithRates(IF kind = "current" THEN PayloadClear ELSE Item(1, 9, 18000),
                          rain, snow)] :
     kind \in {"current", "item"}, rain \in RateOptions, snow \in RateOptions}

InitFormat ==
  /\ cache = EmptyObject
  /\ now = 0
  /\ call = [c \in Calls |-> Idle]
  /\ forecastData = << >>
  /\ grouped = NoValue
  /\ raw \in RawInputs
  /\ formatted = NoValue

Format ==
  /\ formatted = NoValue
  /\ formatted' = IF raw.kind = "current" THEN formatWeatherData(raw.payload).value
                  ELSE formatForecastData(raw.payload).value
  /\ UNCHANGED << cache, now, call, forecastData, grouped, raw >>

NextFormat == Format

SpecFormat == InitFormat /\ [][NextFormat]_vars

(***************************************************************************)
(* Vocabulary of the properties                                            *)
(***************************************************************************)
Started(c) == call[c].pc # "idle"
Key(c) == cacheKey(call[c].op, call[c].city)
Logged(c, e) == \E i \in DOMAIN call[c].log : call[c].log[i] = e
Count(c, e) == Cardinality({i \in DOMAIN call[c].log : call[c].log[i] = e})
Wrote(c) == \E k \in DOMAIN cache : cache[k].by = c
FreshEntry(store, key, t) == key \in DOMAIN store /\ t < store[key].expires

\* c and a work on the same key and neither began after the other had ended
Overlaps(c, a) ==
  /\ c # a /\ Started(c) /\ Key(c) = Key(a)
  /\ c \notin call[a].after /\ a \notin call[c].after

\* b is called after a has returned a result, for the same operation and city,
\* before the entry a stored or read expires, and a ran alone on its key
InSuccession(a, b) ==
  /\ a \in call[b].after
  /\ Key(a) = Key(b)
  /\ call[a].error = NoError
  /\ call[b].at < call[a].window
  /\ \A c \in Calls \ {a, b} : ~Overlaps(c, a)

\* C1: two calls of one operation for one city in succession within the TTL
\* window issue at most one geocoding request and at most one weather/forecast
\* request between them, and the second returns what the first returned.
C1_CacheIdempotence ==
  \A a, b \in Calls :
    InSuccession(a, b) =>
      /\ Count(a, "geocodeRequest") + Count(b, "geocodeRequest") <= 1
      /\ Count(a, "fetchRequest") + Count(b, "fetchRequest") <= 1
      /\ Done(b) /\ call[b].error = NoError
      /\ call[b].result = call[a].result

C1_Witness ==
  \E a, b \in Calls :
    /\ InSuccession(a, b) /\ Logged(a, "set") /\ Done(b)
    /\ call[b].at > call[a].at
    /\ call[b].op = "forecast"

\* C2: a call that misses the cache and whose geocoding lookup returns no match
\* fails with the NOT_FOUND exception, issues no weather/forecast request and
\* writes no cache entry.
C2_NotFoundPropagation ==
  \A c \in Calls :
    Logged(c, "geocodeEmpty") =>
      /\ Done(c) /\ call[c].result = NoValue
      /\ call[c].error.name = "HttpException" /\ call[c].error.status = NOT_FOUND
      /\ Count(c, "fetchRequest") = 0
      /\ ~Logged(c, "set") /\ ~Wrote(c)

C2_Witness ==
  \E c \in Calls : Logged(c, "geocodeEmpty") /\ call[c].op = "forecast" /\ Done(c)

\* C3: a call whose geocoding succeeds and whose weather/forecast request fails
\* ends with the INTERNAL_SERVER_ERROR exception of its operation and writes no
\* cache entry.
C3_UpstreamFailurePropagation ==
  \A c \in Calls :
    Logged(c, "fetchError") =>
      /\ Logged(c, "geocodeOk")
      /\ Done(c) /\ call[c].result = NoValue
      /\ call[c].error = HttpException(FailedMessage(call[c].op), INTERNAL_SERVER_ERROR)
      /\ ~Logged(c, "set") /\ ~Wrote(c)

C3_Witness ==
  \E c \in Calls : Logged(c, "fetchError") /\ Done(c) /\ call[c].city = "Busan"

\* C4: every call that ends without a result ends with one of the two
\* classified exceptions (NOT_FOUND or INTERNAL_SERVER_ERROR), whichever
\* outbound request failed, and a call that fails returns no result.
Classified(e) ==
  e.name = "HttpException" /\ e.status \in {NOT_FOUND, INTERNAL_SERVER_ERROR}

C4_EveryFailureClassified ==
  \A c \in Calls :
    Done(c) =>
      /\ call[c].result = NoValue => Classified(call[c].error)
      /\ call[c].error # NoError => call[c].result = NoValue

\* C5: a lookup that finds a non-expired entry under the operation's key ends
\* the call with exactly that value, without any outbound request and without
\* writing the cache.
C5_HitStep(c) ==
  (call[c].pc = "idle" /\ call'[c].pc # "idle"
     /\ FreshEntry(cache, cacheKey(call'[c].op, call'[c].city), now)) =>
    /\ call'[c].pc = "done"
    /\ call'[c].error = NoError
    /\ call'[c].result = cache[cacheKey(call'[c].op, call'[c].city)].value
    /\ call'[c].log = << "get", "return" >>
    /\ cache' = cache

C5_CacheHit == [][\A c \in Calls : C5_HitStep(c)]_vars

C5_Witness ==
  \E c \in Calls :
    /\ Done(c) /\ call[c].log = << "get", "return" >>
    /\ call[c].result # NoValue /\ call[c].at > 0

\* C6 as stated: whenever the weather/forecast request of a call that missed
\* the cache succeeds, the call stores its result under its key for 300 time
\* units and returns that result.
C6_StoreOn(c, formattable) ==
  (call[c].pc = "fetch" /\ call'[c].pc = "done" /\ formattable
     /\ \E i \in DOMAIN call'[c].log : call'[c].log[i] = "fetchOk") =>
    /\ call'[c].error = NoError
    /\ call'[c].result # NoValue
    /\ Key(c) \in DOMAIN cache'
    /\ cache'[Key(c)] = [value |-> call'[c].result, expires |-> now + 300,
                         at |-> now, by |-> c]
    /\ CacheGet(cache', Key(c), now') = call'[c].result

C6_AsStated == [][\A c \in Calls : C6_StoreOn(c, TRUE)]_vars

\* C6 (amended): whenever the weather/forecast request of a call that missed
\* the cache succeeds and its payload can be formatted, the call stores the
\* formatted result under its key for 300 time units and returns that result;
\* right after the call the entry of the key is the returned value.
C6_StoreAndReturn ==
  [][\A c \in Calls :
       C6_StoreOn(c, \A i \in DOMAIN call'[c].log : call'[c].log[i] # "formatError")]_vars

C6_Witness ==
  \E c \in Calls :
    /\ Done(c) /\ Logged(c, "set") /\ call[c].op = "weather"
    /\ call[c].at = 0 /\ now = 0
    /\ cache[Key(c)].by = c /\ cache[Key(c)].value = call[c].result

\* C7: every entry under a key `weather_...` is a current-weather report and
\* every entry under a key `forecast_...` is a grouped forecast.
ReportFields ==
  {"weatherStatus", "detailWeatherStatus", "currentTemp", "apparentTemp", "currentHumi",
   "minTemp", "maxTemp", "windSpeed", "rainfall", "snowfall", "sunriseTime",
   "sunsetTime", "icon"}

EntryFields == (ReportFields \ {"sunriseTime", "sunsetTime"}) \cup {"forecastTime"}

IsCurrentWeatherReport(v) == DOMAIN v = ReportFields

IsGroupedForecast(v) ==
  /\ DOMAIN v = {"keys", "byDate"}
  /\ \A d \in DOMAIN v.byDate :
       \A i \in DOMAIN v.byDate[d] : DOMAIN v.byDate[d][i] = EntryFields

HasPrefix(key, prefix) == \E city \in Cities : key = prefix \o city

C7_ValueTypeByPrefix ==
  \A key \in DOMAIN cache :
    /\ HasPrefix(key, "weather_") \/ HasPrefix(key, "forecast_")
    /\ HasPrefix(key, "weather_") =>
         IsCurrentWeatherReport(cache[key].value) /\ ~IsGroupedForecast(cache[key].value)
    /\ HasPrefix(key, "forecast_") =>
         IsGroupedForecast(cache[key].value) /\ ~IsCurrentWeatherReport(cache[key].value)

C7_Witness ==
  \E city \in Cities :
    /\ {"weather_" \o city, "forecast_" \o city} \subseteq DOMAIN cache
    /\ cache["forecast_" \o city].value.keys # << >>

\* C8: the grouping of a forecast list has exactly the distinct calendar dates
\* of the list as keys, holds under each date the formatted items of that date
\* in input order, and so holds every formatted item exactly once.
DateOf(item) == toLocaleDateString(item.dt_txt)
FormatAll(items) == [i \in DOMAIN items |-> formatForecastData(items[i]).value]
ItemsOn(items, d) == LET OnDate(item) == DateOf(item) = d IN SelectSeq(items, OnDate)
Occurrences(seq, e) == Cardinality({i \in DOMAIN seq : seq[i] = e})
RECURSIVE SumLen(_, _)
SumLen(f, S) ==
  IF S = {} THEN 0 ELSE LET d == CHOOSE x \in S : TRUE IN Len(f[d]) + SumLen(f, S \ {d})

C8_GroupingPartition ==
  grouped # NoValue =>
    /\ DOMAIN grouped.byDate = {DateOf(forecastData[i]) : i \in DOMAIN forecastData}
    /\ \A d \in DOMAIN grouped.byDate :
         grouped.byDate[d] = FormatAll(ItemsOn(forecastData, d))
    /\ SumLen(grouped.byDate, DOMAIN grouped.byDate) = Len(forecastData)
    /\ \A i \in DOMAIN forecastData :
         LET e == FormatAll(forecastData)[i]
         IN  Occurrences(grouped.byDate[DateOf(forecastData[i])], e)
               = Occurrences(FormatAll(forecastData), e)

C8_Witness ==
  /\ grouped # NoValue
  /\ Len(forecastData) = 3
  /\ DateOf(forecastData[1]) = DateOf(forecastData[3])
  /\ DateOf(forecastData[1]) # DateOf(forecastData[2])
  /\ forecastData[1] # forecastData[3]

\* C9 as stated: the exception raised by the geocoder for an empty result set
\* and the exception raised by fetchWeatherData for a failed request are the
\* exceptions the caller of the operation receives.
C9_AsStated ==
  \A c \in Calls :
    (Logged(c, "geocodeEmpty") \/ Logged(c, "fetchError")) =>
      Done(c) /\ call[c].error = call[c].thrown

\* C9 (amended): the NOT_FOUND exception raised by the geocoder reaches the
\* caller unchanged; the NOT_FOUND exception raised by fetchWeatherData is
\* caught by the operation and replaced by its INTERNAL_SERVER_ERROR exception;
\* in both cases the call ends without a result and without a further request.
C9_ErrorPropagation ==
  \A c \in Calls :
    /\ Logged(c, "geocodeEmpty") =>
         /\ Done(c) /\ call[c].result = NoValue
         /\ call[c].thrown = HttpException(GeocodeNotFoundMessage, NOT_FOUND)
         /\ call[c].error = call[c].thrown
         /\ Count(c, "geocodeRequest") = 1 /\ Count(c, "fetchRequest") = 0
    /\ Logged(c, "fetchError") =>
         /\ Done(c) /\ call[c].result = NoValue
         /\ call[c].thrown = HttpException("City not found", NOT_FOUND)
         /\ call[c].error = HttpException(FailedMessage(call[c].op), INTERNAL_SERVER_ERROR)
         /\ call[c].error # call[c].thrown
         /\ Count(c, "geocodeRequest") = 1 /\ Count(c, "fetchRequest") = 1

C9_Witness ==
  \E a, b \in Calls :
    /\ Logged(a, "geocodeEmpty") /\ Logged(b, "fetchError")
    /\ call[a].op = "weather" /\ call[b].op = "weather"

\* C10: in every call the events come in the order cache lookup, geocoding
\* request, geocoding answer, weather/forecast request, its answer, cache
\* store, return; the weather/forecast request carries the coordinates the
\* geocoding answered, and a call whose geocoding failed issues none.
Precedes(c, first, then) ==
  \A j \in DOMAIN call[c].log :
    call[c].log[j] = then => \E i \in 1 .. j - 1 : call[c].log[i] = first

C10_CallOrder ==
  \A c \in Calls :
    /\ Started(c) => call[c].log[1] = "get"
    /\ Precedes(c, "get", "geocodeRequest")
    /\ Precedes(c, "geocodeRequest", "geocodeOk")
    /\ Precedes(c, "geocodeOk", "fetchRequest")
    /\ Precedes(c, "fetchRequest", "fetchOk")
    /\ Precedes(c, "fetchOk", "set")
    /\ Precedes(c, "set", "return") \/ call[c].log = << "get", "return" >>
    /\ Logged(c, "return") => call[c].log[Len(call[c].log)] = "return"
    /\ Logged(c, "fetchRequest") =>
         call[c].url = Url(call[c].op, Coordinates(call[c].city))
    /\ (Logged(c, "geocodeEmpty") \/ Logged(c, "geocodeError")) =>
         ~Logged(c, "fetchRequest") /\ Done(c)
    /\ \A e \in {"get", "geocodeRequest", "fetchRequest", "set", "return"} : Count(c, e) <= 1

C10_Witness ==
  \E c \in Calls :
    call[c].log = << "get", "geocodeRequest", "geocodeOk", "fetchRequest", "fetchOk",
                     "set", "return" >>

\* C11: a call issues at most one geocoding request and at most one
\* weather/forecast request, and the failure of either is the last thing that
\* happens in the call before it throws.
FailureEvents == {"geocodeError", "geocodeEmpty", "fetchError"}

C11_NoRetry ==
  \A c \in Calls :
    /\ Count(c, "geocodeRequest") <= 1
    /\ Count(c, "fetchRequest") <= 1
    /\ \A i \in DOMAIN call[c].log :
         call[c].log[i] \in FailureEvents =>
           /\ Done(c) /\ call[c].error # NoError /\ call[c].result = NoValue
           /\ Len(call[c].log) = i + 1
           /\ call[c].log[i + 1] = "throw"

C11_Witness ==
  \E a, b \in Calls :
    /\ Done(a) /\ Logged(a, "fetchError") /\ Count(a, "fetchRequest") = 1
    /\ Done(b) /\ Logged(b, "geocodeError") /\ Count(b, "geocodeRequest") = 1

\* C12: two calls of one operation for one city that are under way at the same
\* time each run their own computation: each has issued its own geocoding
\* request, each that got that far its own weather/forecast request with the
\* coordinates of its own geocoding, and each that completed has stored its
\* own result, so that the key's entry comes from a call that stored.
ServedFromCache(c) == call[c].log = << "get", "return" >> /\ call[c].result # NoValue

\* both are under way at once and neither lookup was answered by the cache
Concurrent(a, b) ==
  /\ Overlaps(a, b) /\ Started(a) /\ Started(b)
  /\ ~ServedFromCache(a) /\ ~ServedFromCache(b)

MissPath ==
  << "get", "geocodeRequest", "geocodeOk", "fetchRequest", "fetchOk", "set", "return" >>

C12_NoSingleFlight ==
  \A a, b \in Calls :
    Concurrent(a, b) =>
      /\ Count(a, "geocodeRequest") = 1 /\ Count(b, "geocodeRequest") = 1
      /\ Logged(a, "geocodeOk") => Count(a, "fetchRequest") = 1
      /\ (Done(a) /\ call[a].error = NoError) =>
           /\ call[a].log = MissPath
           /\ Key(a) \in DOMAIN cache
           /\ call[cache[Key(a)].by].log = MissPath
           /\ cache[Key(a)].at >= call[a].at

C12_Witness ==
  \E a, b \in Calls :
    /\ Concurrent(a, b)
    /\ call[a].log = MissPath /\ call[b].log = MissPath
    /\ cache[Key(a)].by = b /\ a < b

\* C13 as stated: when two calls of one operation for one city, under way at
\* the same time, have both stored, the key's entry is the value each of them
\* returned.
BothStored(a, b) ==
  /\ Concurrent(a, b)
  /\ call[a].log = MissPath /\ call[b].log = MissPath
  /\ cache[Key(a)].by \in {a, b}

C13_AsStated ==
  \A a, b \in Calls :
    BothStored(a, b) =>
      /\ cache[Key(a)].value = call[a].result
      /\ cache[Key(a)].value = call[b].result

\* C13 (amended): when two calls of one operation for one city, under way at
\* the same time, have both stored, the key's entry is the value returned by
\* the one that stored last, with the expiry of that store; it is the value
\* of both exactly when both were answered the same payload.
C13_LastWriteWins ==
  \A a, b \in Calls :
    BothStored(a, b) =>
      LET last == cache[Key(a)].by
          first == IF last = a THEN b ELSE a
      IN  /\ cache[Key(a)].value = call[last].result
          /\ cache[Key(a)].expires = call[last].window
          /\ cache[Key(a)].expires >= call[first].window
          /\ (cache[Key(a)].value = call[first].result)
               <=> (call[a].result = call[b].result)

C13_Witness ==
  \E a, b \in Calls :
    /\ BothStored(a, b)
    /\ cache[Key(a)].by = b
    /\ call[a].result # call[b].result
    /\ cache[Key(a)].value = call[b].result

\* C14: an entry that is present with an empty but valid value (the grouping
\* of an empty forecast list) is a hit: the next call within its window
\* returns it as it is and runs no computation.
IsEmptyValue(v) == v = EmptyGroups

AfterFailure(a, b) ==
  /\ a \in call[b].after
  /\ Key(a) = Key(b)
  /\ call[a].error # NoError
  /\ \A c \in Calls \ {a, b} : Key(c) = Key(a) => ~Logged(c, "set")

C15_NoNegativeCaching ==
  /\ \A k \in DOMAIN cache : call[cache[k].by].error = NoError
  /\ \A a, b \in Calls :
       AfterFailure(a, b) =>
         /\ ~Wrote(a)
         /\ ~ServedFromCache(b)
         /\ Count(b, "geocodeRequest") = 1
         /\ (Logged(b, "fetchOk") /\ ~Logged(b, "formatError")) =>
              /\ call[b].log = MissPath
              /\ call[b].error = NoError /\ call[b].result # NoValue
              /\ cache[Key(b)].by = b /\ cache[Key(b)].value = call[b].result

C15_Witness ==
  \E a, b \in Calls :
    /\ AfterFailure(a, b)
    /\ Logged(a, "geocodeEmpty")
    /\ call[b].log = MissPath /\ call[b].at = call[a].at

\* C16: an entry expires 300 time units after it was stored and is never
\* removed by the service; a later call for the key made before the expiry
\* is answered by the entry, and one made from the expiry on computes again
\* and stores an entry with an expiry of its own.
StoredBefore(a, b) ==
  /\ a \in call[b].after
  /\ Key(a) = Key(b)
  /\ call[a].log = MissPath
  /\ \A c \in Calls \ {a, b} : Key(c) = Key(a) => ~Logged(c, "set")

C16_ExpiryOnly ==
  /\ \A k \in DOMAIN cache : cache[k].expires = cache[k].at + 300
  /\ \A c \in Calls : Logged(c, "set") => Key(c) \in DOMAIN cache
  /\ \A a, b \in Calls :
       StoredBefore(a, b) =>
         /\ call[b].at < call[a].window =>
              /\ ServedFromCache(b) /\ call[b].result = call[a].result
              /\ cache[Key(a)].by = a
         /\ call[b].at >= call[a].window =>
              /\ ~ServedFromCache(b)
              /\ Count(b, "geocodeRequest") = 1
              /\ call[b].log = MissPath =>
                   /\ cache[Key(b)].by = b
                   /\ cache[Key(b)].value = call[b].result
                   /\ cache[Key(b)].at >= call[a].window
                   /\ cache[Key(b)].expires >= call[a].window + 300

C16_Witness ==
  \E a, b \in Calls :
    /\ StoredBefore(a, b)
    /\ call[b].at >= call[a].window
    /\ call[b].log = MissPath
    /\ cache[Key(b)].by = b /\ cache[Key(b)].expires = call[b].at + 300

\* C17: the keys of the grouping come in the order in which their dates first
\* occur in the list, each once, and the grouping of every prefix of the list
\* has the keys of the dates met so far: a key exists from the first item of
\* its date on.
DatesOf(items) == {DateOf(items[i]) : i \in DOMAIN items}
FirstIndex(items, d) ==
  CHOOSE i \in DOMAIN items :
    DateOf(items[i]) = d /\ \A j \in 1 .. i - 1 : DateOf(items[j]) # d
Prefix(seq, n) == SubSeq(seq, 1, n)

C17_KeyOrder ==
  grouped # NoValue =>
    /\ Len(grouped.keys) = Cardinality(DatesOf(forecastData))
    /\ {grouped.keys[i] : i \in DOMAIN grouped.keys} = DatesOf(forecastData)
    /\ \A i, j \in DOMAIN grouped.keys :
         i < j => FirstIndex(forecastData, grouped.keys[i])
                    < FirstIndex(forecastData, grouped.keys[j])
    /\ \A n \in 0 .. Len(forecastData) :
         LET part == groupForecastByDate(Prefix(forecastData, n)).value.keys
         IN  /\ part = Prefix(grouped.keys, Len(part))
             /\ {part[i] : i \in DOMAIN part} = DatesOf(Prefix(forecastData, n))

C17_Witness ==
  /\ grouped # NoValue
  /\ Len(forecastData) = 3
  /\ grouped.keys = << "5/2/2024", "5/1/2024" >>
  /\ DateOf(forecastData[3]) = "5/2/2024"

\* C18: the rainfall (snowfall) of a formatted payload or forecast item is
\* "0mm/h" when the rain (snow) sub-object or its "1h" value is absent, and
\* the "1h" value followed by "mm/h" when it is present.
ExpectedRate(field) ==
  IF field.given /\ "1h" \in DOMAIN field.obj
  THEN NumberToString(field.obj["1h"]) \o "mm/h"
  ELSE "0mm/h"

C18_RainSnowDefault ==
  formatted # NoValue =>
    /\ formatted.rainfall = ExpectedRate(raw.rain)
    /\ formatted.snowfall = ExpectedRate(raw.snow)
    /\ (~raw.rain.given \/ raw.rain.obj = EmptyObject) => formatted.rainfall = "0mm/h"
    /\ (~raw.snow.given \/ raw.snow.obj = EmptyObject) => formatted.snowfall = "0mm/h"

C18_Witness ==
  /\ formatted # NoValue
  /\ raw.kind = "item"
  /\ ~raw.rain.given /\ formatted.rainfall = "0mm/h"
  /\ raw.snow.given /\ "1h" \in DOMAIN raw.snow.obj
  /\ formatted.snowfall = "0.25mm/h"

\* C19: a call whose geocoding succeeded and which then fails (the fetch
\* fails, formatting or grouping fails, or the cache store rejects) ends with
\* the operation's INTERNAL_SERVER_ERROR exception, never with NOT_FOUND and
\* never with a result; after a formatting or grouping failure the call has
\* not invoked set and no cache entry is its own.
LateFailureEvents == {"fetchError", "formatError", "setError"}

FailedLate(c) ==
  Logged(c, "geocodeOk") /\ \E e \in LateFailureEvents : Logged(c, e)

C19_LateFailureIsInternal ==
  \A c \in Calls :
    /\ FailedLate(c) =>
         /\ Done(c)
         /\ call[c].error.name = "HttpException"
         /\ call[c].error.status = INTERNAL_SERVER_ERROR
         /\ call[c].error.status # NOT_FOUND
         /\ call[c].error.message = FailedMessage(call[c].op)
         /\ call[c].result = NoValue
         /\ ~Wrote(c)
    /\ Logged(c, "formatError") =>
         /\ ~Logged(c, "set")
         /\ \A k \in DOMAIN cache : cache[k].by # c

C19_Witness ==
  \E a, b \in Calls :
    /\ Logged(a, "geocodeOk") /\ Logged(a, "formatError")
    /\ call[a].thrown = TypeError
    /\ call[a].error.status = INTERNAL_SERVER_ERROR
    /\ Key(a) \notin DOMAIN cache
    /\ Logged(b, "geocodeOk") /\ Logged(b, "setError")
    /\ call[b].error.status = INTERNAL_SERVER_ERROR

\* C20: a step of a getWeatherByCity(city) call changes at most the entry
\* under "weather_" + city and a step of a getFiveDayForecast(city) call at
\* most the entry under "forecast_" + city; every other entry, and every
\* entry when the step ends in a failure or when time passes, stays as it
\* was, and no entry is removed, whatever the other calls are doing.
OwnKey(record) ==
  IF record.op = "weather" THEN "weather_" \o record.city
  ELSE "forecast_" \o record.city

EntryChanged(k) ==
  IF k \in DOMAIN cache /\ k \in DOMAIN cache' THEN cache'[k] # cache[k] ELSE TRUE

C20_FrameStep ==
  /\ DOMAIN cache \subseteq DOMAIN cache'
  /\ \A k \in DOMAIN cache \cup DOMAIN cache' :
       EntryChanged(k) =>
         \E c \in Calls :
           /\ call'[c] # call[c]
           /\ \A d \in Calls \ {c} : call'[d] = call[d]
           /\ call[c].pc = "fetch"
           /\ k = OwnKey(call'[c])
           /\ call'[c].result # NoValue
           /\ call'[c].error = NoError
  /\ \A c \in Calls :
       (call'[c] # call[c] /\ call'[c].result = NoValue) => cache' = cache

C20_Frame == [][C20_FrameStep]_vars

C20_Witness ==
  \E a, b \in Calls :
    /\ a # b
    /\ call[a].city = call[b].city /\ call[a].op = "weather" /\ call[b].op = "forecast"
    /\ "weather_" \o call[a].city \in DOMAIN cache
    /\ "forecast_" \o call[b].city \in DOMAIN cache
    /\ cache["weather_" \o call[a].city].by = a
    /\ cache["weather_" \o call[a].city].value = call[a].result
    /\ cache["forecast_" \o call[b].city].by = b
    /\ cache["weather_" \o call[a].city].at < cache["forecast_" \o call[b].city].at
====
